---- MODULE Spec2Model ----
(***************************************************************************)
(* Model of static/js/app.js: the two DOMContentLoaded listeners, each     *)
(* with its own socket, new_block handler, payment tracker and walker      *)
(* throttle, acting on one shared DOM (animation container, info panel,    *)
(* payment displays).                                                      *)
(*                                                                         *)
(* Time is counted in units of 1000 ms: the throttle is 2 units, the       *)
(* lifetime of a walker 12 units, the test walker is due 1 unit after      *)
(* load.  Date.now() is taken to be monotonic.                             *)
(*                                                                         *)
(* JavaScript values are encoded as follows.                               *)
(*   boolean-or-missing fields : "true", "false", "undefined"              *)
(*   strings                   : sequences of one-character strings        *)
(*   optional numbers          : an integer, Undefined (-1) when absent    *)
(*   arrays / objects that may be missing : [present, items] / [present,   *)
(*                               keys]                                     *)
(*   a memo record             : [kind, has, memo_data] where kind is the  *)
(*                               JSON shape of the record ("object",       *)
(*                               "string", "null"), has the typeof of its  *)
(*                               memo_data field and memo_data the text    *)
(***************************************************************************)
EXTENDS Integers, Sequences, FiniteSets, TLC

VARIABLES
    now,                \* Date.now(), in units of 1000 ms
    blocks,             \* number of blocks the feed has pushed so far
    inflight,           \* per socket: new_block payloads not yet handled
    lastWalkerTime,     \* per listener: let lastWalkerTime
    exactPaymentCount,  \* per listener: let exactPaymentCount
    anyPaymentCount,    \* per listener: let anyPaymentCount
    recentPayments,     \* per listener: let recentPayments
    container,          \* children of #animation-container
    timers,             \* pending setTimeout callbacks
    latestBlockInfo,    \* content of #latest-block-info
    paymentDom,         \* #exact-payment-count, #any-payment-count, #payment-list
    emitted,            \* per socket: frontend_event and heartbeat messages emitted
    connected,          \* per socket: socket.connected
    connectionStatus,   \* #connection-status: textContent, className, style.color
    lastStatusEvent,    \* the connection event delivered last, and its socket
    connectCalls,       \* per socket: number of socket.connect() calls
    heartbeatDue,       \* per listener: when its setInterval callback runs next
    infoPanel,          \* #info-panel: its classList
    collapseBtn,        \* #collapse-btn: its aria-expanded attribute
    clicks              \* number of clicks on #collapse-btn so far

vars == <<now, blocks, inflight, lastWalkerTime, exactPaymentCount,
          anyPaymentCount, recentPayments, container, timers,
          latestBlockInfo, paymentDom, emitted, connected, connectionStatus,
          lastStatusEvent, connectCalls, heartbeatDue,
          infoPanel, collapseBtn, clicks>>

(***************************************************************************)
(* Bounds of the model.                                                    *)
(***************************************************************************)
LoadTime == 5       \* Date.now() when the page loads (any value >= 2 units)
MaxTime == 11       \* clock ticks explored after load, lifecycle runs
ShortTime == 2      \* clock ticks explored after load, classification runs
MaxBlocks == 2      \* blocks pushed by the feed, lifecycle runs
FewBlocks == 1      \* blocks pushed by the feed, classification runs
MaxCalls == 11      \* updatePaymentTracker calls, tracker runs
TrackerTicks == 1   \* clock ticks explored after load, tracker runs
MaxTxCount == 500   \* largest txn_count of a payload, size runs
HeartbeatTicks == 60 \* clock ticks explored after load, connection runs
LifeTicks == 13     \* clock ticks explored after load, removal runs
LeakTicks == 14     \* clock ticks explored after load, accumulation runs
LeakBlocks == 8     \* blocks pushed by the feed, accumulation runs
MaxClicks == 3      \* clicks on the collapse button

(***************************************************************************)
(* Program constants.                                                      *)
(***************************************************************************)
MAX_PAYMENT_HISTORY == 10
minTimeBetweenWalkers == 2
WalkerLifetime == 12
TestWalkerDelay == 1
minSize == 100
maxSize == 400
DefaultTxCount == 100
HeartbeatInterval == 30

Undefined == -1

Handlers == {1, 2}      \* 1: the listener of lines 1-565, 2: that of 567-1005

Min(a, b) == IF a < b THEN a ELSE b

(***************************************************************************)
(* Strings.                                                                *)
(***************************************************************************)
Whitespace == {" "}

RECURSIVE TrimLeft(_)
TrimLeft(s) ==
    IF s = <<>> THEN s
    ELSE IF Head(s) \in Whitespace THEN TrimLeft(Tail(s)) ELSE s

RECURSIVE TrimRight(_)
TrimRight(s) ==
    IF s = <<>> THEN s
    ELSE IF s[Len(s)] \in Whitespace
         THEN TrimRight(SubSeq(s, 1, Len(s) - 1)) ELSE s

\* String.prototype.trim
Trim(s) == TrimRight(TrimLeft(s))

\* String.prototype.includes
\* variant: startsWith in place of includes
Includes_Prefix(s, sub) == Len(sub) <= Len(s) /\ SubSeq(s, 1, Len(sub)) = sub

\* String.prototype.includes
Includes(s, sub) ==
    \E i \in 1 .. (Len(s) - Len(sub) + 1) : SubSeq(s, i, i + Len(sub) - 1) = sub

(***************************************************************************)
(* Classification of a new_block payload (first listener).                 *)
(***************************************************************************)
targetWallet == "ra22VZUKQbznAAQooPYffPPXs4MUFwqVeH"

\* blockData.tx_details is truthy
HasDetails(blockData) == blockData.tx_details.present

checkSpecificWalletReceivedExactAmount(blockData) ==
    /\ ~blockData.isNull
    /\ HasDetails(blockData)
    /\ blockData.tx_details.special_wallet_received_exact_amount = "true"

checkSpecificWalletReceivedCatAmount(blockData) ==
    /\ ~blockData.isNull
    /\ HasDetails(blockData)
    /\ blockData.tx_details.special_wallet_received_cat_amount = "true"

\* variant: the currency of the payment not tested
SomePaymentToTarget_AnyCurrency(transactions) ==
    \E i \in 1 .. Len(transactions) :
        /\ transactions[i].type = "Payment"
        /\ transactions[i].receiver = targetWallet

\* transactions.some(tx => Payment && XRP && receiver === targetWallet)
SomePaymentToTarget(transactions) ==
    \E i \in 1 .. Len(transactions) :
        /\ transactions[i].type = "Payment"
        /\ transactions[i].currency = "XRP"
        /\ transactions[i].receiver = targetWallet

checkSpecificWalletReceivedXRP(blockData) ==
    IF /\ HasDetails(blockData)
       /\ blockData.tx_details.special_wallet_received_xrp \in {"true", "false"}
    THEN blockData.tx_details.special_wallet_received_xrp = "true"
    ELSE IF \/ ~HasDetails(blockData)
            \/ ~blockData.tx_details.detailed_transactions.present
         THEN FALSE
         ELSE SomePaymentToTarget(blockData.tx_details.detailed_transactions.items)

NFTWords == { <<"N", "F", "T">>, <<"T", "o", "k", "e", "n">>, <<"M", "i", "n", "t">> }

checkForNFTMintTransactions(blockData) ==
    IF \/ ~HasDetails(blockData)
       \/ ~blockData.tx_details.transaction_types.present
    THEN FALSE
    ELSE \E type \in blockData.tx_details.transaction_types.keys :
            \E w \in NFTWords : Includes(type, w)

\* variant: the text is not trimmed before it is compared with ''
FirstMemoValid_NoTrim(firstMemo) ==
    /\ firstMemo.kind = "object" /\ firstMemo.has = "string"
    /\ firstMemo.memo_data # <<>>

\* firstMemo && typeof firstMemo.memo_data === 'string' && firstMemo.memo_data.trim() !== ''
FirstMemoValid(firstMemo) ==
    /\ firstMemo.kind # "null"
    /\ firstMemo.kind = "object" /\ firstMemo.has = "string"
    /\ Trim(firstMemo.memo_data) # <<>>

\* variant: the fallback list is used whenever no special-wallet memo was taken
SelectedMemos_FallbackAlways(data) ==
    IF ~data.isNull /\ HasDetails(data)
    THEN IF /\ data.tx_details.special_wallet_received_xrp = "true"
            /\ data.tx_details.has_special_wallet_memo = "true"
            /\ data.tx_details.special_wallet_memos.present
            /\ Len(data.tx_details.special_wallet_memos.items) > 0
            /\ FirstMemoValid(data.tx_details.special_wallet_memos.items[1])
         THEN <<data.tx_details.special_wallet_memos.items[1]>>
         ELSE IF /\ data.tx_details.transaction_memos.present
                 /\ Len(data.tx_details.transaction_memos.items) > 0
              THEN data.tx_details.transaction_memos.items
              ELSE <<>>
    ELSE <<>>

\* let selectedMemos, as left by lines 83-128
SelectedMemos(data) ==
    IF ~data.isNull /\ HasDetails(data)
    THEN LET specialWalletReceivedPayment ==
                 data.tx_details.special_wallet_received_xrp = "true"
             hasSpecialWalletMemoFlag ==
                 data.tx_details.has_special_wallet_memo = "true"
             specialWalletMemosExist ==
                 /\ data.tx_details.special_wallet_memos.present
                 /\ Len(data.tx_details.special_wallet_memos.items) > 0
         IN  IF /\ specialWalletReceivedPayment
                /\ hasSpecialWalletMemoFlag
                /\ specialWalletMemosExist
             THEN LET firstMemo == data.tx_details.special_wallet_memos.items[1]
                  IN  IF FirstMemoValid(firstMemo) THEN <<firstMemo>> ELSE <<>>
             ELSE IF /\ ~specialWalletReceivedPayment
                     /\ data.tx_details.transaction_memos.present
                     /\ Len(data.tx_details.transaction_memos.items) > 0
                  THEN data.tx_details.transaction_memos.items
                  ELSE <<>>
    ELSE <<>>

(***************************************************************************)
(* Classification in the second listener: no cat-amount tier, no memos.    *)
(***************************************************************************)
checkSpecificWalletReceivedExactAmount2(blockData) ==
    IF /\ HasDetails(blockData)
       /\ blockData.tx_details.special_wallet_received_exact_amount \in {"true", "false"}
    THEN blockData.tx_details.special_wallet_received_exact_amount = "true"
    ELSE FALSE

(***************************************************************************)
(* updateBlockInfo.  A truthy number is one that is neither missing nor 0. *)
(* The accounts and sample-transaction sections are not modelled; their    *)
(* records are taken to be well formed (address and hash present).         *)
(***************************************************************************)
TruthyNumber(n) == n # Undefined /\ n # 0

\* undefined.toFixed(2) at line 233 raises a TypeError
updateBlockInfoThrows(blockData) ==
    /\ HasDetails(blockData)
    /\ TruthyNumber(blockData.tx_details.total_xrp_transferred)
    /\ blockData.tx_details.largest_payment = Undefined

NoXrp == [shown |-> FALSE, total |-> Undefined, largest |-> Undefined, fees |-> Undefined]

\* the innerHTML assigned at lines 276-284
BlockInfoHTML(blockData) ==
    [ledger_index |-> blockData.ledger_index,
     txn_count |-> blockData.txn_count,
     formatted_time |-> blockData.formatted_time,
     types |-> IF HasDetails(blockData) /\ blockData.tx_details.transaction_types.present
               THEN blockData.tx_details.transaction_types.keys ELSE {},
     xrp |-> IF HasDetails(blockData)
                /\ TruthyNumber(blockData.tx_details.total_xrp_transferred)
             THEN [shown |-> TRUE,
                   total |-> blockData.tx_details.total_xrp_transferred,
                   largest |-> blockData.tx_details.largest_payment,
                   fees |-> IF TruthyNumber(blockData.tx_details.total_fees_xrp)
                            THEN blockData.tx_details.total_fees_xrp ELSE 0]
             ELSE NoXrp]

\* the info panel before the first block
NoBlockInfo ==
    [ledger_index |-> 0, txn_count |-> Undefined, formatted_time |-> 0,
     types |-> {}, xrp |-> NoXrp]

(***************************************************************************)
(* State after both DOMContentLoaded listeners have run: nothing in the    *)
(* container, one test-walker timer per listener, empty trackers.          *)
(***************************************************************************)
\* #connection-status as the page template renders it, before any socket event
TemplateStatus == [textContent |-> "Connecting...", className |-> "", color |-> ""]

NoStatusEvent == [name |-> "none", h |-> 0]

connVars == <<connected, connectionStatus, lastStatusEvent, connectCalls, heartbeatDue>>

panelVars == <<infoPanel, collapseBtn, clicks>>

\* the class lists #info-panel can be rendered with, as far as the handler can tell
PanelTemplates == {{}, {"collapsed"}}

\* the values the page can give aria-expanded before the first click ("null": no attribute)
ButtonTemplates == {[ariaExpanded |-> a] : a \in {"null", "true", "false"}}

\* variant: the test walker created at load, without the delay of 1000 ms
TestTimer_Immediate(h) ==
    [due |-> LoadTime, kind |-> "test", h |-> h, born |-> LoadTime]

\* setTimeout(function() { createWalker(); }, 1000)
TestTimer(h) ==
    [due |-> LoadTime + TestWalkerDelay, kind |-> "test", h |-> h, born |-> LoadTime]

InitApp ==
    /\ now = LoadTime
    /\ blocks = 0
    /\ inflight = [h \in Handlers |-> <<>>]
    /\ lastWalkerTime = [h \in Handlers |-> 0]
    /\ exactPaymentCount = [h \in Handlers |-> 0]
    /\ anyPaymentCount = [h \in Handlers |-> 0]
    /\ recentPayments = [h \in Handlers |-> <<>>]
    /\ container = {}
    /\ timers = <<TestTimer(1), TestTimer(2)>>
    /\ latestBlockInfo = NoBlockInfo
    /\ paymentDom = [exact |-> 0, any |-> 0, last |-> Undefined, list |-> <<>>]
    /\ emitted = [h \in Handlers |-> <<>>]
    /\ connected = [h \in Handlers |-> FALSE]
    /\ connectionStatus = TemplateStatus
    /\ lastStatusEvent = NoStatusEvent
    /\ connectCalls = [h \in Handlers |-> 0]
    /\ heartbeatDue = [h \in Handlers |-> LoadTime + HeartbeatInterval]
    /\ clicks = 0

\* the page with the panel rendered expanded and the button without the attribute
Init ==
    /\ InitApp
    /\ infoPanel = {}
    /\ collapseBtn = [ariaExpanded |-> "null"]

\* the page with the panel and the button rendered in any way
InitPanel ==
    /\ InitApp
    /\ infoPanel \in PanelTemplates
    /\ collapseBtn \in ButtonTemplates

(***************************************************************************)
(* updatePaymentTracker (both listeners have the same text; each acts on   *)
(* its own counters and on the shared payment displays).                   *)
(***************************************************************************)
\* variant: shift() instead of pop() once the list is over its capacity
UnshiftCapped_Shift(payment, list) ==
    LET unshifted == <<payment>> \o list
    IN  IF Len(unshifted) > MAX_PAYMENT_HISTORY THEN Tail(unshifted) ELSE unshifted

\* recentPayments.unshift(payment); if (length > MAX_PAYMENT_HISTORY) pop()
UnshiftCapped(payment, list) ==
    LET unshifted == <<payment>> \o list
    IN  IF Len(unshifted) > MAX_PAYMENT_HISTORY
        THEN SubSeq(unshifted, 1, Len(unshifted) - 1)
        ELSE unshifted

\* variant: anyPaymentCount++ moved into an else branch of if (isExactAmount)
updatePaymentTracker_AnyInElse(h, isExactAmount) ==
    LET payment == [time |-> now, isExact |-> isExactAmount]
        exact == IF isExactAmount THEN exactPaymentCount[h] + 1
                 ELSE exactPaymentCount[h]
        any == IF isExactAmount THEN anyPaymentCount[h] ELSE anyPaymentCount[h] + 1
        list == UnshiftCapped(payment, recentPayments[h])
    IN  /\ exactPaymentCount' = [exactPaymentCount EXCEPT ![h] = exact]
        /\ anyPaymentCount' = [anyPaymentCount EXCEPT ![h] = any]
        /\ recentPayments' = [recentPayments EXCEPT ![h] = list]
        /\ paymentDom' = [exact |-> IF isExactAmount THEN exact ELSE paymentDom.exact,
                          any |-> IF isExactAmount THEN paymentDom.any ELSE any,
                          last |-> now,
                          list |-> list]

updatePaymentTracker(h, isExactAmount) ==
    LET payment == [time |-> now, isExact |-> isExactAmount]
        exact == IF isExactAmount THEN exactPaymentCount[h] + 1
                 ELSE exactPaymentCount[h]
        list == UnshiftCapped(payment, recentPayments[h])
    IN  /\ exactPaymentCount' = [exactPaymentCount EXCEPT ![h] = exact]
        /\ anyPaymentCount' = [anyPaymentCount EXCEPT ![h] = @ + 1]
        /\ recentPayments' = [recentPayments EXCEPT ![h] = list]
        /\ paymentDom' = [exact |-> IF isExactAmount THEN exact ELSE paymentDom.exact,
                          any |-> anyPaymentCount[h] + 1,
                          last |-> now,
                          list |-> list]

trackerVars == <<exactPaymentCount, anyPaymentCount, recentPayments, paymentDom>>

(***************************************************************************)
(* createWalker of the first listener (lines 358-528).                     *)
(***************************************************************************)
\* variant: the minimum distance taken as 2 ms instead of 2000 ms
Throttled_Millis(h) == (now - lastWalkerTime[h]) * 1000 < minTimeBetweenWalkers

\* now - lastWalkerTime < minTimeBetweenWalkers
Throttled(h) == now - lastWalkerTime[h] < minTimeBetweenWalkers

\* variant: the exact-amount tier tested before the cat-amount tier
Sprite_ExactFirst(hasNFTMint, specialWalletReceived, specialWalletExactAmount, specialWalletCatAmount) ==
    IF specialWalletExactAmount THEN "default_walker3.gif"
    ELSE IF specialWalletCatAmount THEN "spinning_cat.gif"
    ELSE IF specialWalletReceived THEN "happy.gif"
    ELSE IF hasNFTMint THEN "default_walker1.gif"
    ELSE "default_walker.gif"

\* variant: the NFT tier tested before the any-payment tier
Sprite_NFTFirst(hasNFTMint, specialWalletReceived, specialWalletExactAmount, specialWalletCatAmount) ==
    IF specialWalletCatAmount THEN "spinning_cat.gif"
    ELSE IF specialWalletExactAmount THEN "default_walker3.gif"
    ELSE IF hasNFTMint THEN "default_walker1.gif"
    ELSE IF specialWalletReceived THEN "happy.gif"
    ELSE "default_walker.gif"

\* the if / else-if chain of lines 379-395
Sprite(hasNFTMint, specialWalletReceived, specialWalletExactAmount, specialWalletCatAmount) ==
    IF specialWalletCatAmount THEN "spinning_cat.gif"
    ELSE IF specialWalletExactAmount THEN "default_walker3.gif"
    ELSE IF specialWalletReceived THEN "happy.gif"
    ELSE IF hasNFTMint THEN "default_walker1.gif"
    ELSE "default_walker.gif"

\* variant: the transaction count not capped at 200
WalkerHeight200_NoCap(txCount) ==
    200 * minSize + txCount * (maxSize - minSize)

\* 200 * walkerHeight: minSize + Math.min(txCount, 200) / 200 * (maxSize - minSize)
WalkerHeight200(txCount) ==
    200 * minSize + Min(txCount, 200) * (maxSize - minSize)

\* !memo || typeof memo !== 'object'
MemoNotObject(memo) == memo.kind # "object"

\* memo.memo_data && typeof memo.memo_data === 'string' && memo.memo_data.trim() !== ''
MemoContentValid(memo) ==
    /\ memo.has = "string"
    /\ memo.memo_data # <<>>
    /\ Trim(memo.memo_data) # <<>>

\* the early returns of lines 438-451
MemoReturnsEarly(memos) ==
    /\ Len(memos) > 0
    /\ \/ MemoNotObject(memos[1])
       \/ ~MemoContentValid(memos[1])

\* width200, size200: 200 * style.width, 200 * style.height
Element(kind, h, sprite, width200, size200, text, block) ==
    [kind |-> kind, h |-> h, born |-> now, sprite |-> sprite,
     width200 |-> width200, size200 |-> size200, text |-> text, block |-> block]

\* variant: the bubble's timeout one second longer than the walker's
RemovalTimer_BubbleLate(kind, h) ==
    [due |-> now + WalkerLifetime + (IF kind = "bubble" THEN 1 ELSE 0),
     kind |-> kind, h |-> h, born |-> now]

RemovalTimer(kind, h) ==
    [due |-> now + WalkerLifetime, kind |-> kind, h |-> h, born |-> now]

\* the data.type of the frontend_event, lines 510-511
DetectionType(specialWalletExactAmount, specialWalletCatAmount) ==
    IF specialWalletCatAmount THEN "cat_amount"
    ELSE IF specialWalletExactAmount THEN "exact_amount"
    ELSE "any_amount"

walkerVars == <<lastWalkerTime, container, timers, emitted>>

\* block: the ledger the walker stands for (0: the test walker);
\* pending: the timers pending when the call is made
createWalker(txCount, hasNFTMint, specialWalletReceived, specialWalletExactAmount, specialWalletCatAmount, memos, block, pending) ==
    IF Throttled(1)
    THEN /\ timers' = pending
         /\ UNCHANGED <<lastWalkerTime, container, emitted>>
    ELSE LET walkerHeight == WalkerHeight200(txCount)
             walkerWidth == walkerHeight
             walker == Element("walker", 1,
                               Sprite(hasNFTMint, specialWalletReceived,
                                      specialWalletExactAmount, specialWalletCatAmount),
                               walkerWidth, walkerHeight, <<>>, block)
             memoBubble == Element("bubble", 1, "", walkerHeight, walkerHeight,
                                   memos[1].memo_data, block)
         IN  /\ lastWalkerTime' = [lastWalkerTime EXCEPT ![1] = now]
             /\ IF MemoReturnsEarly(memos)
                THEN /\ container' = container \cup {walker}
                     /\ timers' = pending
                     /\ UNCHANGED emitted
                ELSE /\ container' = container \cup {walker} \cup
                                     (IF Len(memos) > 0 THEN {memoBubble} ELSE {})
                     /\ emitted' =
                            IF \/ specialWalletCatAmount
                               \/ specialWalletExactAmount
                               \/ specialWalletReceived
                            THEN [emitted EXCEPT ![1] = Append(@,
                                     [type |-> DetectionType(specialWalletExactAmount,
                                                             specialWalletCatAmount),
                                      timestamp |-> now])]
                            ELSE emitted
                     /\ timers' = pending
                                  \o (IF Len(memos) > 0
                                      THEN <<RemovalTimer("bubble", 1)>> ELSE <<>>)
                                  \o <<RemovalTimer("walker", 1)>>

(***************************************************************************)
(* createWalker of the second listener (lines 855-988): no cat tier, no    *)
(* memo bubble, a thinking cloud for the default walker.                   *)
(***************************************************************************)
Sprite2(hasNFTMint, specialWalletReceived, specialWalletExactAmount) ==
    IF specialWalletExactAmount THEN "default_walker3.gif"
    ELSE IF specialWalletReceived THEN "happy.gif"
    ELSE IF hasNFTMint THEN "default_walker1.gif"
    ELSE "default_walker.gif"

createWalker2(txCount, hasNFTMint, specialWalletReceived, specialWalletExactAmount, block, pending) ==
    IF Throttled(2)
    THEN /\ timers' = pending
         /\ UNCHANGED <<lastWalkerTime, container, emitted>>
    ELSE LET walkerHeight == WalkerHeight200(txCount)
             walkerWidth == walkerHeight
             cloudSize == (walkerHeight * 9) \div 10
             walker == Element("walker", 2,
                               Sprite2(hasNFTMint, specialWalletReceived,
                                       specialWalletExactAmount),
                               walkerWidth, walkerHeight, <<>>, block)
             thinkingCloud == Element("cloud", 2, "", cloudSize, cloudSize, <<>>, block)
             hasCloud == ~hasNFTMint /\ ~specialWalletReceived /\ ~specialWalletExactAmount
         IN  /\ lastWalkerTime' = [lastWalkerTime EXCEPT ![2] = now]
             /\ container' = container \cup {walker} \cup
                             (IF hasCloud THEN {thinkingCloud} ELSE {})
             /\ emitted' =
                    IF specialWalletExactAmount \/ specialWalletReceived
                    THEN [emitted EXCEPT ![2] = Append(@,
                             [type |-> IF specialWalletExactAmount
                                       THEN "exact_amount" ELSE "any_amount",
                              timestamp |-> now])]
                    ELSE emitted
             /\ timers' = Append(pending, RemovalTimer("walker", 2))

(***************************************************************************)
(* The new_block handlers.                                                 *)
(***************************************************************************)
\* data.txn_count || 0
TxCount(data) == IF data.txn_count = Undefined THEN 0 ELSE data.txn_count

\* variant: the guard against a missing payload left out
Falsy_Never(data) == FALSE

\* !data
Falsy(data) == data.isNull

\* socket.on('new_block') of the first listener, lines 59-146
new_block ==
    /\ inflight[1] # <<>>
    /\ inflight' = [inflight EXCEPT ![1] = Tail(@)]
    /\ UNCHANGED <<now, blocks, connVars, panelVars>>
    /\ LET data == Head(inflight[1])
       IN  IF Falsy(data) \/ updateBlockInfoThrows(data)
           THEN UNCHANGED <<latestBlockInfo, trackerVars, walkerVars>>
           ELSE LET specialWalletExactAmount == checkSpecificWalletReceivedExactAmount(data)
                    specialWalletCatAmount == checkSpecificWalletReceivedCatAmount(data)
                    specialWalletReceived == checkSpecificWalletReceivedXRP(data)
                    hasNFTMint == checkForNFTMintTransactions(data)
                    selectedMemos == SelectedMemos(data)
                IN  /\ latestBlockInfo' = BlockInfoHTML(data)
                    /\ IF specialWalletExactAmount \/ specialWalletCatAmount
                       THEN updatePaymentTracker(1, TRUE)
                       ELSE IF specialWalletReceived
                            THEN updatePaymentTracker(1, FALSE)
                            ELSE UNCHANGED trackerVars
                    /\ createWalker(TxCount(data), hasNFTMint, specialWalletReceived,
                                    specialWalletExactAmount, specialWalletCatAmount,
                                    selectedMemos, data.ledger_index, timers)

\* socket.on('new_block') of the second listener, lines 625-655
new_block2 ==
    /\ inflight[2] # <<>>
    /\ inflight' = [inflight EXCEPT ![2] = Tail(@)]
    /\ UNCHANGED <<now, blocks, connVars, panelVars>>
    /\ LET data == Head(inflight[2])
       IN  IF Falsy(data) \/ updateBlockInfoThrows(data)
           THEN UNCHANGED <<latestBlockInfo, trackerVars, walkerVars>>
           ELSE LET specialWalletExactAmount == checkSpecificWalletReceivedExactAmount2(data)
                    specialWalletReceived == checkSpecificWalletReceivedXRP(data)
                    hasNFTMint == checkForNFTMintTransactions(data)
                IN  /\ latestBlockInfo' = BlockInfoHTML(data)
                    /\ IF specialWalletExactAmount
                       THEN updatePaymentTracker(2, TRUE)
                       ELSE IF specialWalletReceived
                            THEN updatePaymentTracker(2, FALSE)
                            ELSE UNCHANGED trackerVars
                    /\ createWalker2(TxCount(data), hasNFTMint, specialWalletReceived,
                                     specialWalletExactAmount, data.ledger_index, timers)

(***************************************************************************)
(* Timers.  The callback that runs is the pending one that is due first,   *)
(* the earlier registered one among equals.                                *)
(***************************************************************************)
NextTimer ==
    CHOOSE i \in 1 .. Len(timers) :
        \A j \in 1 .. Len(timers) :
            \/ timers[i].due < timers[j].due
            \/ timers[i].due = timers[j].due /\ i <= j

TimerDue == timers # <<>> /\ timers[NextTimer].due <= now

RemoveAt(seq, i) == SubSeq(seq, 1, i - 1) \o SubSeq(seq, i + 1, Len(seq))

\* walker.parentNode.removeChild(walker) and the like, lines 487-491, 518-527, 978-987
Removed(t) ==
    {el \in container :
        /\ el.h = t.h
        /\ el.born = t.born
        /\ el.kind \in (IF t.kind = "bubble" THEN {"bubble"} ELSE {"walker", "cloud"})}

RunTimer ==
    /\ TimerDue
    /\ LET t == timers[NextTimer]
           rest == RemoveAt(timers, NextTimer)
       IN  IF t.kind = "test"
           THEN \* setTimeout(function() { createWalker(); }, 1000), lines 42-45, 608-611
                /\ UNCHANGED <<now, blocks, inflight, latestBlockInfo, trackerVars, connVars, panelVars>>
                /\ IF t.h = 1
                   THEN createWalker(DefaultTxCount, FALSE, FALSE, FALSE, FALSE, <<>>, 0, rest)
                   ELSE createWalker2(DefaultTxCount, FALSE, FALSE, FALSE, 0, rest)
           ELSE /\ container' = container \ Removed(t)
                /\ timers' = rest
                /\ UNCHANGED <<now, blocks, inflight, latestBlockInfo, trackerVars,
                               lastWalkerTime, emitted, connVars, panelVars>>

(***************************************************************************)
(* Environment: the clock and the feed.  A pushed block reaches both       *)
(* sockets, after the one before it has been handled; payloads and due    *)
(* timers are handled before the clock moves on.                           *)
(***************************************************************************)
Tick(horizon) ==
    /\ now < LoadTime + horizon
    /\ ~TimerDue
    /\ \A h \in Handlers : inflight[h] = <<>>
    /\ \A h \in Handlers : heartbeatDue[h] > now
    /\ now' = now + 1
    /\ UNCHANGED <<blocks, inflight, latestBlockInfo, trackerVars, walkerVars, connVars, panelVars>>

Push(e, nblocks) ==
    /\ blocks < nblocks
    /\ \A h \in Handlers : inflight[h] = <<>>
    /\ blocks' = blocks + 1
    /\ LET data == [e EXCEPT !.ledger_index = blocks + 1, !.formatted_time = now]
       IN  inflight' = [h \in Handlers |-> Append(inflight[h], data)]
    /\ UNCHANGED <<now, latestBlockInfo, trackerVars, walkerVars, connVars, panelVars>>

(***************************************************************************)
(* Connection monitoring.  Each listener registers the handlers below on   *)
(* its own socket; all of them write the one #connection-status element.   *)
(* The handlers of one event run in the order of their registration.       *)
(***************************************************************************)
\* socket.on('connect'): lines 14-18, then lines 48-51 (innerHTML replaces the text)
onConnect(status) ==
    LET monitored == [status EXCEPT !.textContent = "Connected",
                                    !.className = "connected"]
    IN  [monitored EXCEPT !.textContent = "Connected to XRP Ledger",
                          !.color = "#4CAF50"]

\* socket.on('disconnect'): lines 20-24, then lines 53-56
onDisconnect(status) ==
    LET monitored == [status EXCEPT !.textContent = "Disconnected - Reconnecting...",
                                    !.className = "disconnected"]
    IN  [monitored EXCEPT !.textContent = "Disconnected from XRP Ledger",
                          !.color = "#F44336"]

\* socket.on('connect_error'): lines 26-30
onConnectError(status) ==
    [status EXCEPT !.textContent = "Connection Error", !.className = "disconnected"]

\* variant: the class of the disconnect handler left in the reconnect handler
onReconnect_Disconnected(status) ==
    [status EXCEPT !.textContent = "Reconnected", !.className = "disconnected"]

\* socket.on('reconnect'): lines 32-36
onReconnect(status) ==
    [status EXCEPT !.textContent = "Reconnected", !.className = "connected"]

\* socket.connected once the socket has raised the event
ConnectedAfter(name) == name \in {"connect", "reconnect"}

\* the socket of listener h raises a connection event: its handlers run
StatusEvent(name, h, status) ==
    /\ connected' = [connected EXCEPT ![h] = ConnectedAfter(name)]
    /\ connectionStatus' = status
    /\ lastStatusEvent' = [name |-> name, h |-> h]
    /\ UNCHANGED <<now, blocks, inflight, latestBlockInfo, trackerVars, walkerVars,
                   connectCalls, heartbeatDue, panelVars>>

connect(h) == StatusEvent("connect", h, onConnect(connectionStatus))

disconnect(h) == StatusEvent("disconnect", h, onDisconnect(connectionStatus))

connect_error(h) == StatusEvent("connect_error", h, onConnectError(connectionStatus))

reconnect(h) == StatusEvent("reconnect", h, onReconnect(connectionStatus))

\* variant: the heartbeat sent without looking at the socket
SocketConnected_Unchecked(h) == TRUE

\* socket.connected, line 556
SocketConnected(h) == connected[h]

\* the setInterval callback of lines 555-564 (and 996-1005)
heartbeat(h) ==
    /\ heartbeatDue[h] <= now
    /\ heartbeatDue' = [heartbeatDue EXCEPT ![h] = @ + HeartbeatInterval]
    /\ IF SocketConnected(h)
       THEN /\ emitted' = [emitted EXCEPT ![h] =
                              Append(@, [type |-> "heartbeat", timestamp |-> now])]
            /\ UNCHANGED connectCalls
       ELSE /\ connectCalls' = [connectCalls EXCEPT ![h] = @ + 1]
            /\ UNCHANGED emitted
    /\ UNCHANGED <<now, blocks, inflight, latestBlockInfo, trackerVars, lastWalkerTime,
                   container, timers, connected, connectionStatus, lastStatusEvent,
                   panelVars>>

(***************************************************************************)
(* The collapse button (first listener only, lines 536-552).               *)
(***************************************************************************)
\* variant: classList.add in place of classList.toggle
toggle_Add(classList, token) == classList \cup {token}

\* DOMTokenList.toggle
toggle(classList, token) ==
    IF token \in classList THEN classList \ {token} ELSE classList \cup {token}

\* setAttribute turns its value into a string
AttrString(value) == IF value THEN "true" ELSE "false"

click ==
    /\ clicks < MaxClicks
    /\ clicks' = clicks + 1
    /\ infoPanel' = toggle(infoPanel, "collapsed")
    /\ LET isCollapsed == "collapsed" \in infoPanel'
       IN  collapseBtn' = [collapseBtn EXCEPT !.ariaExpanded = AttrString(~isCollapsed)]
    /\ UNCHANGED <<now, blocks, inflight, latestBlockInfo, trackerVars, walkerVars, connVars>>

(***************************************************************************)
(* Payloads.                                                               *)
(***************************************************************************)
Memo(kind, has, text) == [kind |-> kind, has |-> has, memo_data |-> text]

MemoHi == Memo("object", "string", <<"h", "i">>)
MemoYo == Memo("object", "string", <<" ", "y", "o">>)
MemoBlank == Memo("object", "string", <<" ", " ">>)
MemoEmpty == Memo("object", "string", <<>>)
MemoNoData == Memo("object", "undefined", <<>>)
MemoNumber == Memo("object", "number", <<>>)
MemoString == Memo("string", "undefined", <<>>)
MemoNull == Memo("null", "undefined", <<>>)

Array(items) == [present |-> TRUE, items |-> items]
NoArray == [present |-> FALSE, items |-> <<>>]

Keys(keys) == [present |-> TRUE, keys |-> keys]
NoKeys == [present |-> FALSE, keys |-> {}]

KeyPayment == <<"P", "a", "y", "m", "e", "n", "t">>
KeyNFTokenMint == <<"N", "F", "T", "o", "k", "e", "n", "M", "i", "n", "t">>
KeyTrustSet == <<"T", "r", "u", "s", "t", "S", "e", "t">>

KeyNFTokenBurn == <<"N", "F", "T", "o", "k", "e", "n", "B", "u", "r", "n">>
KeyMPTokenAuthorize == <<"M", "P", "T", "o", "k", "e", "n", "A", "u", "t", "h", "o", "r", "i", "z", "e">>
KeyLowercase == <<"n", "f", "t", "o", "k", "e", "n", "m", "i", "n", "t">>
KeyOfferCreate == <<"O", "f", "f", "e", "r", "C", "r", "e", "a", "t", "e">>

Tx(type, currency, receiver) == [type |-> type, currency |-> currency, receiver |-> receiver]
TxToTarget == Tx("Payment", "XRP", targetWallet)
TxToOther == Tx("Payment", "XRP", "rOther")
TxUsdToTarget == Tx("Payment", "USD", targetWallet)
TxOfferToTarget == Tx("OfferCreate", "XRP", targetWallet)

Details(xrp, exact, cat, hasMemo, specialMemos, memos, types, txs, total, largest, fees) ==
    [present |-> TRUE,
     special_wallet_received_xrp |-> xrp,
     special_wallet_received_exact_amount |-> exact,
     special_wallet_received_cat_amount |-> cat,
     has_special_wallet_memo |-> hasMemo,
     special_wallet_memos |-> specialMemos,
     transaction_memos |-> memos,
     transaction_types |-> types,
     detailed_transactions |-> txs,
     total_xrp_transferred |-> total,
     largest_payment |-> largest,
     total_fees_xrp |-> fees]

NoDetails ==
    [Details("undefined", "undefined", "undefined", "undefined", NoArray, NoArray,
             NoKeys, NoArray, Undefined, Undefined, Undefined)
     EXCEPT !.present = FALSE]

\* ledger_index and formatted_time are filled in when the block is pushed
Block(txn_count, tx_details) ==
    [isNull |-> FALSE, ledger_index |-> 0, txn_count |-> txn_count,
     formatted_time |-> 0, tx_details |-> tx_details]

\* a new_block message without payload
NullBlock == [Block(Undefined, NoDetails) EXCEPT !.isNull = TRUE]

Plain(types) ==
    Details("false", "false", "false", "false", NoArray, NoArray, types, NoArray,
            Undefined, Undefined, Undefined)

\* transaction-type runs: no payment flags, up to two type keys out of TypeKeys
TypeKeys ==
    {KeyPayment, KeyOfferCreate, KeyLowercase, KeyNFTokenMint, KeyNFTokenBurn,
     KeyMPTokenAuthorize}

TypeBlocks ==
    { NullBlock, Block(50, NoDetails), Block(50, Plain(NoKeys)) } \cup
    { Block(50, Plain(Keys(ks))) : ks \in {x \in SUBSET TypeKeys : Cardinality(x) <= 2} }

\* lifecycle runs: one payload per way through the handlers
BlockKinds ==
    { NullBlock,
      Block(50, Plain(Keys({KeyPayment, KeyNFTokenMint}))),
      Block(500, Details("true", "true", "true", "true", Array(<<MemoHi>>), Array(<<MemoYo>>),
                         Keys({KeyPayment}), Array(<<TxToTarget>>), 7, 7, Undefined)),
      Block(Undefined, Details("false", "false", "false", "false", NoArray,
                               Array(<<MemoYo, MemoHi>>),
                               NoKeys, NoArray, Undefined, Undefined, Undefined)),
      Block(50, Details("undefined", "false", "false", "false", NoArray, Array(<<MemoString>>),
                        NoKeys, Array(<<TxToTarget>>), Undefined, Undefined, Undefined)),
      Block(200, Details("false", "true", "false", "false", NoArray, NoArray,
                         NoKeys, NoArray, 7, Undefined, Undefined)) }

Flags == {"true", "false"}
FlagsOrMissing == {"true", "false", "undefined"}

\* classification runs: the combinations of the flags, type keys and transactions,
\* and payloads whose XRP statistics lack largest_payment
FlagBlocks ==
    { NullBlock, Block(50, NoDetails), Block(50, Plain(NoKeys)),
      Block(50, Plain(Keys({KeyTrustSet}))) } \cup
    { Block(50, Details(xrp, exact, cat, "true", Array(<<MemoHi>>), Array(<<MemoYo>>),
                        types, txs, 7, 7, Undefined)) :
        xrp \in FlagsOrMissing, exact \in Flags, cat \in Flags,
        types \in {Keys({KeyPayment}), Keys({KeyPayment, KeyNFTokenMint})},
        txs \in {NoArray, Array(<<TxToOther, TxToTarget>>), Array(<<TxUsdToTarget>>)} } \cup
    { Block(200, Details(xrp, exact, cat, "false", NoArray, NoArray,
                         NoKeys, NoArray, 7, Undefined, Undefined)) :
        xrp \in Flags, exact \in Flags, cat \in Flags }

\* any-payment runs: the flag true, false or missing with every kind of transaction list
SignalBlocks ==
    { NullBlock, Block(50, NoDetails) } \cup
    { Block(50, Details(xrp, "false", "false", "false", NoArray, NoArray,
                        Keys({KeyPayment}), txs, Undefined, Undefined, Undefined)) :
        xrp \in FlagsOrMissing,
        txs \in {NoArray, Array(<<>>), Array(<<TxToOther>>), Array(<<TxToOther, TxToTarget>>),
                 Array(<<TxUsdToTarget>>), Array(<<TxOfferToTarget>>)} }

MemoLists ==
    { NoArray, Array(<<>>), Array(<<MemoHi>>), Array(<<MemoYo, MemoHi>>),
      Array(<<MemoBlank>>), Array(<<MemoEmpty, MemoHi>>), Array(<<MemoNoData>>),
      Array(<<MemoNumber>>), Array(<<MemoString>>), Array(<<MemoNull, MemoHi>>) }

\* memo runs: each memo list in every shape, against the memo flags and against
\* the other list being absent or well formed
MemoBlocks ==
    { NullBlock, Block(50, NoDetails) } \cup
    { Block(50, Details(xrp, "false", "false", hasMemo, specialMemos, memos,
                        NoKeys, NoArray, Undefined, Undefined, Undefined)) :
        xrp \in FlagsOrMissing, hasMemo \in Flags,
        specialMemos \in MemoLists, memos \in {NoArray, Array(<<MemoYo>>)} } \cup
    { Block(50, Details(xrp, "false", "false", "true", specialMemos, memos,
                        NoKeys, txs, Undefined, Undefined, Undefined)) :
        xrp \in FlagsOrMissing,
        specialMemos \in {NoArray, Array(<<MemoHi>>)}, memos \in MemoLists,
        txs \in {NoArray, Array(<<TxToTarget>>)} }

\* size runs: no transaction count, and counts at both ends of the ramp, on
\* it and beyond it
SizeBlocks ==
    { Block(n, Plain(NoKeys)) : n \in {Undefined, 0, 1, 50, 199, 200, 201, MaxTxCount} }

\* removal runs: a payload with a well-formed fallback memo, one with a
\* special-wallet memo and one without memos
LifeBlocks ==
    { Block(50, Details("false", "false", "false", "false", NoArray, Array(<<MemoYo, MemoHi>>),
                        NoKeys, NoArray, Undefined, Undefined, Undefined)),
      Block(200, Details("true", "false", "false", "true", Array(<<MemoHi>>), NoArray,
                         NoKeys, NoArray, Undefined, Undefined, Undefined)),
      Block(50, Plain(Keys({KeyPayment}))) }

\* accumulation runs: a payload whose first fallback memo is blank
LeakBlocks1 ==
    { Block(50, Details("false", "false", "false", "false", NoArray, Array(<<MemoBlank>>),
                        NoKeys, NoArray, Undefined, Undefined, Undefined)) }

(***************************************************************************)
(* Specifications.                                                         *)
(***************************************************************************)
NextOver(payloads, horizon, nblocks) ==
    \/ \E e \in payloads : Push(e, nblocks)
    \/ new_block
    \/ new_block2
    \/ RunTimer
    \/ Tick(horizon)

Next == NextOver(BlockKinds, MaxTime, MaxBlocks)
Spec == Init /\ [][Next]_vars

NextFlags == NextOver(FlagBlocks, ShortTime, FewBlocks)
SpecFlags == Init /\ [][NextFlags]_vars

NextMemos == NextOver(MemoBlocks, ShortTime, FewBlocks)
SpecMemos == Init /\ [][NextMemos]_vars

NextLife == NextOver(LifeBlocks, LifeTicks, MaxBlocks)
SpecLife == Init /\ [][NextLife]_vars

NextLeak == NextOver(LeakBlocks1, LeakTicks, LeakBlocks)
SpecLeak == Init /\ [][NextLeak]_vars

NextSize == NextOver(SizeBlocks, ShortTime, FewBlocks)
SpecSize == Init /\ [][NextSize]_vars

NextTypes == NextOver(TypeBlocks, ShortTime, FewBlocks)
SpecTypes == Init /\ [][NextTypes]_vars

NextSignal == NextOver(SignalBlocks, ShortTime, FewBlocks)
SpecSignal == Init /\ [][NextSignal]_vars

\* panel runs: clicks on the collapse button among blocks, from every rendering
NextPanel ==
    \/ click
    \/ NextOver(SizeBlocks, ShortTime, FewBlocks)

SpecPanel == InitPanel /\ [][NextPanel]_vars

\* connection runs: the sockets raise connection events in any order, at any time
NextConn ==
    \/ \E h \in Handlers : connect(h)
    \/ \E h \in Handlers : disconnect(h)
    \/ \E h \in Handlers : connect_error(h)
    \/ \E h \in Handlers : reconnect(h)
    \/ \E h \in Handlers : heartbeat(h)
    \/ RunTimer
    \/ Tick(HeartbeatTicks)

SpecConn == Init /\ [][NextConn]_vars

\* tracker runs: updatePaymentTracker called directly, any number of times
TrackerCall(isExactAmount) ==
    /\ anyPaymentCount[1] < MaxCalls
    /\ updatePaymentTracker(1, isExactAmount)
    /\ UNCHANGED <<now, blocks, inflight, latestBlockInfo, walkerVars, connVars, panelVars>>

NextTracker ==
    \/ \E isExactAmount \in BOOLEAN : TrackerCall(isExactAmount)
    \/ RunTimer
    \/ Tick(TrackerTicks)

SpecTracker == Init /\ [][NextTracker]_vars

(***************************************************************************)
(* Vocabulary of the properties.                                           *)
(***************************************************************************)
\* this step is listener h handling the payload at the head of its socket
Handles(h) == inflight[h] # <<>> /\ inflight'[h] = Tail(inflight[h])

\* the payload listener h handles in this step
Payload(h) == Head(inflight[h])

\* this step has put payload d on the info panel: the handler got past updateBlockInfo
Shown(d) == ~d.isNull /\ latestBlockInfo'.ledger_index = d.ledger_index

\* this step is the test-walker callback of listener h
TestCall(h) ==
    /\ TimerDue
    /\ timers[NextTimer].kind = "test" /\ timers[NextTimer].h = h
    /\ UNCHANGED <<now, inflight, blocks>>
    /\ timers' # timers

\* the elements of one kind that listener h adds to the container in this step
Added(kind, h) == {el \in container' \ container : el.kind = kind /\ el.h = h}

Walkers(h) == {el \in container : el.kind = "walker" /\ el.h = h}

HasRemovalTimer(el) ==
    \E i \in 1 .. Len(timers) :
        timers[i] = [due |-> el.born + WalkerLifetime, kind |-> el.kind,
                     h |-> el.h, born |-> el.born]

(***************************************************************************)
(* C1.  Every walker element that createWalker (first listener) adds to    *)
(* the animation container is removed 12 seconds after it was added: as    *)
(* long as it is in the container it is no older than 12 seconds and its   *)
(* removal is scheduled for 12 seconds after its creation.  The payloads   *)
(* include one whose selected memo list starts with a malformed record.    *)
(***************************************************************************)
C1_WalkerRemovedAfterLifetime ==
    \A w \in Walkers(1) :
        /\ now - w.born <= WalkerLifetime
        /\ HasRemovalTimer(w)

(***************************************************************************)
(* C2.  A walker that the first listener creates for a payload whose       *)
(* special_wallet_received_cat_amount is true has the sprite               *)
(* spinning_cat.gif, whatever the exact-amount flag, the received-XRP flag *)
(* and the transaction-type keys are; and no such payload that reaches the *)
(* renderer unthrottled is left without a walker.                          *)
(***************************************************************************)
C2_CatFlag(d) ==
    ~d.isNull /\ d.tx_details.present
    /\ d.tx_details.special_wallet_received_cat_amount = "true"

C2_CatAmountSprite ==
    [][(Handles(1) /\ C2_CatFlag(Payload(1))) =>
          /\ \A w \in Added("walker", 1) : w.sprite = "spinning_cat.gif"
          /\ (Shown(Payload(1)) /\ now - lastWalkerTime[1] >= 2) =>
                 Added("walker", 1) # {}]_vars

\* a cat-amount walker stands in the container although the exact-amount and
\* received-XRP flags were set too and the type keys name an NFT mint
C2_Witness ==
    \E w \in Walkers(1) :
        /\ w.sprite = "spinning_cat.gif"
        /\ emitted[1] # <<>> /\ emitted[1][Len(emitted[1])].type = "cat_amount"
        /\ exactPaymentCount[2] > 0
        /\ KeyNFTokenMint \in latestBlockInfo.types
        /\ latestBlockInfo.ledger_index = w.block

(***************************************************************************)
(* C3.  For every payload for which the first listener creates a walker,   *)
(* exactly one walker is created and its sprite is the first that applies  *)
(* in the order cat-amount flag, exact-amount flag, any-payment signal,    *)
(* NFT-mint presence, default.                                             *)
(***************************************************************************)
C3_Variants ==
    {"spinning_cat.gif", "default_walker3.gif", "happy.gif", "default_walker1.gif",
     "default_walker.gif"}

C3_Expected(d) ==
    IF d.tx_details.present /\ d.tx_details.special_wallet_received_cat_amount = "true"
    THEN "spinning_cat.gif"
    ELSE IF d.tx_details.present /\ d.tx_details.special_wallet_received_exact_amount = "true"
    THEN "default_walker3.gif"
    ELSE IF checkSpecificWalletReceivedXRP(d) THEN "happy.gif"
    ELSE IF checkForNFTMintTransactions(d) THEN "default_walker1.gif"
    ELSE "default_walker.gif"

C3_OneVariantByPriority ==
    [][Handles(1) =>
          /\ Cardinality(Added("walker", 1)) <= 1
          /\ \A w \in Added("walker", 1) :
                w.sprite \in C3_Variants /\ w.sprite = C3_Expected(Payload(1))]_vars

\* walkers of the first listener with a sprite below the cat tier: the exact-amount
\* one although a payment was flagged too, or the happy one although an NFT was minted
C3_Witness ==
    \E w \in Walkers(1) :
        /\ w.block > 0
        /\ \/ /\ w.sprite = "default_walker3.gif"
              /\ anyPaymentCount[1] > 0
              /\ KeyNFTokenMint \in latestBlockInfo.types
           \/ /\ w.sprite = "happy.gif"
              /\ KeyNFTokenMint \in latestBlockInfo.types
        /\ latestBlockInfo.ledger_index = w.block

(***************************************************************************)
(* C4.  Within one listener a createWalker call made less than 2000 ms     *)
(* after the last walker it created is a no-op: no element is added, no    *)
(* timer scheduled, no diagnostic event emitted and lastWalkerTime stays;  *)
(* hence two walkers created by one listener are at least 2000 ms apart.   *)
(***************************************************************************)
C4_TooSoon(h) == now - lastWalkerTime[h] < 2

C4_Apart ==
    \A h \in Handlers : \A w1, w2 \in Walkers(h) :
        w1 # w2 => (w1.born - w2.born >= 2 \/ w2.born - w1.born >= 2)

C4_ThrottleNoOp ==
    [][/\ \A h \in Handlers :
            /\ (Handles(h) /\ Shown(Payload(h)) /\ C4_TooSoon(h)) =>
                   UNCHANGED <<container, timers, emitted, lastWalkerTime>>
            /\ (TestCall(h) /\ C4_TooSoon(h)) =>
                   /\ UNCHANGED <<container, emitted, lastWalkerTime>>
                   /\ timers' = RemoveAt(timers, NextTimer)
            /\ Added("walker", h) # {} => ~C4_TooSoon(h)
       /\ C4_Apart']_vars

\* a block was handled by the first listener while it was throttled (the panel shows
\* a ledger for which it has no walker, less than 2 s after its last walker), and
\* it holds two walkers of its own
C4_Witness ==
    /\ latestBlockInfo.ledger_index > 0
    /\ inflight[1] = <<>>
    /\ now - lastWalkerTime[1] < 2
    /\ \A w \in Walkers(1) : w.block # latestBlockInfo.ledger_index
    /\ Cardinality(Walkers(1)) >= 1
    /\ \E h \in Handlers : Cardinality(Walkers(h)) >= 2

(***************************************************************************)
(* C5.  Whenever a listener handles a non-empty payload, the info panel    *)
(* afterwards shows the ledger index, transaction count and time of that   *)
(* payload, so that after any sequence of events the panel shows the most  *)
(* recently delivered non-empty one, throttled walker or not.              *)
(***************************************************************************)
C5_PanelShowsLatest ==
    [][\A h \in Handlers :
          (Handles(h) /\ ~Payload(h).isNull) =>
              /\ latestBlockInfo'.ledger_index = Payload(h).ledger_index
              /\ latestBlockInfo'.txn_count = Payload(h).txn_count
              /\ latestBlockInfo'.formatted_time = Payload(h).formatted_time]_vars

(***************************************************************************)
(* C6.  Each block the feed delivers adds at most one walker element to    *)
(* the animation container.                                                *)
(***************************************************************************)
C6_OneWalkerPerBlock ==
    \A b \in 1 .. blocks :
        Cardinality({w \in container : w.kind = "walker" /\ w.block = b}) <= 1

(***************************************************************************)
(* C7.  After any sequence of updatePaymentTracker calls recentPayments    *)
(* holds at most 10 records, newest first; each call puts its record in    *)
(* front of the others, and when the list was full the record that is      *)
(* dropped is the last, oldest one.                                        *)
(***************************************************************************)
C7_NewestFirst(list) ==
    \A i, j \in 1 .. Len(list) : i < j => list[i].time >= list[j].time

C7_BoundedNewestFirst ==
    [][LET old == recentPayments[1]
           new == recentPayments'[1]
       IN  /\ Len(new) <= 10
           /\ C7_NewestFirst(new)
           /\ anyPaymentCount'[1] # anyPaymentCount[1] =>
                 /\ Len(new) = Min(Len(old) + 1, 10)
                 /\ new[1].time = now
                 /\ \A i \in 2 .. Len(new) : new[i] = old[i - 1]]_vars

\* an 11th record has been added: ten are kept, the newest in front, and the first
\* (exact) payment is gone
C7_Witness ==
    /\ anyPaymentCount[1] = 11
    /\ Len(recentPayments[1]) = 10
    /\ recentPayments[1][1].time > recentPayments[1][10].time
    /\ exactPaymentCount[1] = 1
    /\ \A i \in 1 .. 10 : ~recentPayments[1][i].isExact

(***************************************************************************)
(* C8.  Per payload the first listener handles, the tracker is updated at  *)
(* most once: with the exact-amount or cat-amount flag set, both counters  *)
(* grow by 1 and a record with isExact = TRUE is prepended; otherwise with *)
(* the any-payment signal set, only anyPaymentCount grows by 1 and a       *)
(* record with isExact = FALSE is prepended; otherwise counters and        *)
(* recentPayments stay as they are.                                        *)
(***************************************************************************)
C8_Prepended(isExact) ==
    LET old == recentPayments[1]
        new == recentPayments'[1]
    IN  /\ Len(new) = Min(Len(old) + 1, 10)
        /\ new[1].isExact = isExact
        /\ \A i \in 2 .. Len(new) : new[i] = old[i - 1]

C8_TrackerPerEvent ==
    [][(Handles(1) /\ ~Payload(1).isNull) =>
          LET d == Payload(1)
              exactOrCat ==
                  /\ d.tx_details.present
                  /\ \/ d.tx_details.special_wallet_received_exact_amount = "true"
                     \/ d.tx_details.special_wallet_received_cat_amount = "true"
          IN  IF exactOrCat
              THEN /\ exactPaymentCount'[1] = exactPaymentCount[1] + 1
                   /\ anyPaymentCount'[1] = anyPaymentCount[1] + 1
                   /\ C8_Prepended(TRUE)
              ELSE IF checkSpecificWalletReceivedXRP(d)
              THEN /\ exactPaymentCount'[1] = exactPaymentCount[1]
                   /\ anyPaymentCount'[1] = anyPaymentCount[1] + 1
                   /\ C8_Prepended(FALSE)
              ELSE /\ exactPaymentCount'[1] = exactPaymentCount[1]
                   /\ anyPaymentCount'[1] = anyPaymentCount[1]
                   /\ recentPayments'[1] = recentPayments[1]]_vars

(***************************************************************************)
(* C9.  The selected memo list is the single first special-wallet memo     *)
(* when special_wallet_received_xrp is true, has_special_wallet_memo is    *)
(* true, special_wallet_memos is a non-empty array and its first element   *)
(* has a non-blank string memo_data; the whole transaction_memos list when *)
(* special_wallet_received_xrp is not true and transaction_memos is a      *)
(* non-empty array; and empty in every other case.  It is the list the     *)
(* handler passes on: a bubble it creates shows the first memo of it.      *)
(***************************************************************************)
C9_NonBlankString(m) ==
    m.kind = "object" /\ m.has = "string" /\ \E i \in 1 .. Len(m.memo_data) : m.memo_data[i] # " "

C9_NonEmptyArray(a) == a.present /\ a.items # <<>>

C9_Expected(d) ==
    IF d.isNull \/ ~d.tx_details.present THEN <<>>
    ELSE IF /\ d.tx_details.special_wallet_received_xrp = "true"
            /\ d.tx_details.has_special_wallet_memo = "true"
            /\ C9_NonEmptyArray(d.tx_details.special_wallet_memos)
            /\ C9_NonBlankString(d.tx_details.special_wallet_memos.items[1])
    THEN <<d.tx_details.special_wallet_memos.items[1]>>
    ELSE IF /\ d.tx_details.special_wallet_received_xrp # "true"
            /\ C9_NonEmptyArray(d.tx_details.transaction_memos)
    THEN d.tx_details.transaction_memos.items
    ELSE <<>>

C9_SelectedMemoList ==
    [][Handles(1) =>
          /\ SelectedMemos(Payload(1)) = C9_Expected(Payload(1))
          /\ \A b \in Added("bubble", 1) :
                /\ C9_Expected(Payload(1)) # <<>>
                /\ b.text = C9_Expected(Payload(1))[1].memo_data]_vars

\* the first listener has handled a special-wallet payment whose memo flag is set
\* and whose first special memo is invalid, while transaction_memos holds a good
\* memo: it has a walker for the block and no bubble (the second listener has the
\* payload still to handle)
C9_Witness ==
    /\ inflight[1] = <<>> /\ inflight[2] # <<>>
    /\ LET d == Head(inflight[2])
       IN  /\ ~d.isNull /\ d.tx_details.present
           /\ d.tx_details.special_wallet_received_xrp = "true"
           /\ d.tx_details.has_special_wallet_memo = "true"
           /\ C9_NonEmptyArray(d.tx_details.special_wallet_memos)
           /\ ~C9_NonBlankString(d.tx_details.special_wallet_memos.items[1])
           /\ C9_NonEmptyArray(d.tx_details.transaction_memos)
           /\ C9_NonBlankString(d.tx_details.transaction_memos.items[1])
           /\ \E w \in Walkers(1) : w.block = d.ledger_index
           /\ ~\E b \in container : b.kind = "bubble" /\ b.block = d.ledger_index

(***************************************************************************)
(* C10.  For every payload the first listener handles at most one memo     *)
(* bubble is created, and the memo shown with the walker is the first      *)
(* special-wallet memo if the special-wallet flag set holds, else the      *)
(* first memo of transaction_memos if that list is non-empty, else none    *)
(* (a malformed memo is not shown).                                        *)
(***************************************************************************)
C10_FlagSet(d) ==
    /\ d.tx_details.special_wallet_received_xrp = "true"
    /\ d.tx_details.has_special_wallet_memo = "true"
    /\ C9_NonEmptyArray(d.tx_details.special_wallet_memos)

\* the memo the claim names, as a list of at most one memo
C10_Claimed(d) ==
    IF d.isNull \/ ~d.tx_details.present THEN <<>>
    ELSE IF C10_FlagSet(d) THEN <<d.tx_details.special_wallet_memos.items[1]>>
    ELSE IF C9_NonEmptyArray(d.tx_details.transaction_memos)
    THEN <<d.tx_details.transaction_memos.items[1]>>
    ELSE <<>>

\* the same, the fallback taken only when special_wallet_received_xrp is not true
C10_Amended(d) ==
    IF d.isNull \/ ~d.tx_details.present THEN <<>>
    ELSE IF C10_FlagSet(d) THEN <<d.tx_details.special_wallet_memos.items[1]>>
    ELSE IF /\ d.tx_details.special_wallet_received_xrp # "true"
            /\ C9_NonEmptyArray(d.tx_details.transaction_memos)
    THEN <<d.tx_details.transaction_memos.items[1]>>
    ELSE <<>>

\* in this step the bubbles the first listener adds are those of memo list m
C10_Shows(m) ==
    /\ Cardinality(Added("bubble", 1)) <= 1
    /\ \A b \in Added("bubble", 1) :
          m # <<>> /\ C9_NonBlankString(m[1]) /\ b.text = m[1].memo_data
    /\ (Added("walker", 1) # {} /\ m # <<>> /\ C9_NonBlankString(m[1])) =>
          Added("bubble", 1) # {}

C10_MemoShownAsClaimed ==
    [][Handles(1) => C10_Shows(C10_Claimed(Payload(1)))]_vars

\* C10 as amended: ... else the first memo of transaction_memos if
\* special_wallet_received_xrp is not true and that list is non-empty, else none.
C10_MemoShown ==
    [][Handles(1) => C10_Shows(C10_Amended(Payload(1)))]_vars

\* the first listener has handled a payload with both a special-wallet memo and
\* fallback memos: one bubble, showing the special-wallet memo
C10_Witness ==
    /\ inflight[1] = <<>> /\ inflight[2] # <<>>
    /\ LET d == Head(inflight[2])
       IN  /\ ~d.isNull /\ d.tx_details.present
           /\ C10_FlagSet(d)
           /\ C9_NonEmptyArray(d.tx_details.transaction_memos)
           /\ d.tx_details.transaction_memos.items[1] # d.tx_details.special_wallet_memos.items[1]
           /\ Cardinality({b \in container : b.kind = "bubble"}) = 1
           /\ \E b \in container :
                 /\ b.kind = "bubble" /\ b.block = d.ledger_index
                 /\ b.text = d.tx_details.special_wallet_memos.items[1].memo_data

(***************************************************************************)
(* C11.  When the memo record chosen for display (the first special-wallet *)
(* memo under the special-wallet flag set, else the first fallback memo    *)
(* when special_wallet_received_xrp is not true) is malformed, the first   *)
(* listener creates no bubble and everything else is as for the same       *)
(* payload without memos: one walker with the sprite and size of the       *)
(* payload, its removal scheduled 12 seconds ahead, and the diagnostic     *)
(* event emitted when a special-wallet signal is set.                      *)
(***************************************************************************)
C11_Malformed(d) ==
    /\ C10_Amended(d) # <<>>
    /\ ~C9_NonBlankString(C10_Amended(d)[1])

C11_Signal(d) ==
    \/ checkSpecificWalletReceivedXRP(d)
    \/ d.tx_details.special_wallet_received_exact_amount = "true"
    \/ d.tx_details.special_wallet_received_cat_amount = "true"

C11_Type(d) ==
    IF d.tx_details.special_wallet_received_cat_amount = "true" THEN "cat_amount"
    ELSE IF d.tx_details.special_wallet_received_exact_amount = "true" THEN "exact_amount"
    ELSE "any_amount"

C11_MalformedMemoAsNoMemo ==
    [][(Handles(1) /\ Shown(Payload(1)) /\ ~C4_TooSoon(1) /\ C11_Malformed(Payload(1))) =>
          LET d == Payload(1)
          IN  /\ Added("bubble", 1) = {}
              /\ Cardinality(Added("walker", 1)) = 1
              /\ \A w \in Added("walker", 1) :
                    /\ w.sprite = C3_Expected(d)
                    /\ w.size200 = 200 * 100 + Min(TxCount(d), 200) * 300
              /\ timers' = Append(timers, [due |-> now + 12, kind |-> "walker",
                                           h |-> 1, born |-> now])
              /\ emitted'[1] = IF C11_Signal(d)
                               THEN Append(emitted[1], [type |-> C11_Type(d), timestamp |-> now])
                               ELSE emitted[1]]_vars

(***************************************************************************)
(* C12.  Whenever a listener handles a payload whose tx_details lack any   *)
(* of total_xrp_transferred, largest_payment and total_fees_xrp, handling  *)
(* completes: the panel shows the payload, the tracker counts it when it   *)
(* carries a payment signal, and a walker is created unless the listener   *)
(* is throttled, as happens for a payload that has the three fields.       *)
(***************************************************************************)
C12_SomeAbsent(d) ==
    /\ ~d.isNull /\ d.tx_details.present
    /\ \/ d.tx_details.total_xrp_transferred = Undefined
       \/ d.tx_details.largest_payment = Undefined
       \/ d.tx_details.total_fees_xrp = Undefined

\* the payload carries a payment signal listener h looks at (the second listener
\* does not read the cat-amount flag)
C12_Counted(h, d) ==
    \/ checkSpecificWalletReceivedXRP(d)
    \/ d.tx_details.special_wallet_received_exact_amount = "true"
    \/ h = 1 /\ d.tx_details.special_wallet_received_cat_amount = "true"

C12_AbsentNumbersNoError ==
    [][\A h \in Handlers :
          (Handles(h) /\ C12_SomeAbsent(Payload(h))) =>
              LET d == Payload(h)
              IN  /\ latestBlockInfo'.ledger_index = d.ledger_index
                  /\ latestBlockInfo'.txn_count = d.txn_count
                  /\ anyPaymentCount'[h] =
                         anyPaymentCount[h] + (IF C12_Counted(h, d) THEN 1 ELSE 0)
                  /\ ~C4_TooSoon(h) => Cardinality(Added("walker", h)) = 1]_vars

(***************************************************************************)
(* C13.  A new_block message without payload leaves the state as it is:    *)
(* the info panel, exactPaymentCount, anyPaymentCount, recentPayments,     *)
(* lastWalkerTime and the walker, cloud and bubble elements in the         *)
(* container are the same after it as before, and so are the payment       *)
(* displays, the pending timers and the emitted messages.                  *)
(***************************************************************************)
C13_MissingPayloadNoChange ==
    [][\A h \in Handlers :
          (Handles(h) /\ Payload(h).isNull) =>
              /\ latestBlockInfo' = latestBlockInfo
              /\ exactPaymentCount' = exactPaymentCount
              /\ anyPaymentCount' = anyPaymentCount
              /\ recentPayments' = recentPayments
              /\ lastWalkerTime' = lastWalkerTime
              /\ container' = container
              /\ paymentDom' = paymentDom
              /\ timers' = timers
              /\ emitted' = emitted]_vars

\* the first listener has handled an empty message, unthrottled, after a block with
\* a payment: the panel still shows that block, the counters stand at 1 and the
\* only walkers are those made before
C13_Witness ==
    /\ blocks = 2
    /\ inflight[1] = <<>> /\ inflight[2] # <<>> /\ Head(inflight[2]).isNull
    /\ latestBlockInfo.ledger_index = 1
    /\ anyPaymentCount[1] = 1 /\ Len(recentPayments[1]) = 1
    /\ now - lastWalkerTime[1] >= 2
    /\ Walkers(1) # {}
    /\ \A el \in container : el.block < 2

(***************************************************************************)
(* C14.  The walker the first listener creates for a payload with          *)
(* transaction count n has height 100 + min(n, 200) / 200 * 300 and a      *)
(* width equal to its height; as a function of n the height is monotonic   *)
(* non-decreasing and clamped: 100 at 0, 175 at 50, 400 at 200 and at      *)
(* every n above 200.  (Sizes are carried multiplied by 200.)              *)
(***************************************************************************)
C14_Size200(n) == 200 * 100 + (IF n < 200 THEN n ELSE 200) * 300

C14_Function ==
    /\ \A n \in 0 .. MaxTxCount :
          /\ WalkerHeight200(n) = C14_Size200(n)
          /\ n > 200 => WalkerHeight200(n) = 200 * 400
          /\ n > 0 => WalkerHeight200(n - 1) <= WalkerHeight200(n)
    /\ WalkerHeight200(0) = 200 * 100
    /\ WalkerHeight200(50) = 200 * 175
    /\ WalkerHeight200(200) = 200 * 400

C14_WalkerSize ==
    [][Handles(1) =>
          /\ C14_Function
          /\ \A w \in Added("walker", 1) :
                /\ w.size200 = C14_Size200(TxCount(Payload(1)))
                /\ w.width200 = w.size200
                /\ 200 * 100 <= w.size200 /\ w.size200 <= 200 * 400]_vars

\* walkers of the first listener stand for a block of more than 200 transactions:
\* 400 px high and wide, next to the test walker of 100 transactions (250 px)
C14_Witness ==
    /\ \E w \in Walkers(1) :
          /\ w.block > 0 /\ latestBlockInfo.ledger_index = w.block
          /\ latestBlockInfo.txn_count > 200
          /\ w.size200 = 200 * 400 /\ w.width200 = 200 * 400
    /\ \E w \in Walkers(2) : w.block = 0 /\ w.size200 = 200 * 250

(***************************************************************************)
(* C16.  Each time the heartbeat interval of a listener fires, 30 seconds  *)
(* after the time before, exactly one of two things happens on its socket: *)
(* connected, a heartbeat message is emitted and no connection requested;  *)
(* not connected, a connection is requested and nothing emitted.  No       *)
(* heartbeat is ever emitted on a socket that is not connected.            *)
(***************************************************************************)
C16_Fires(h) == heartbeatDue'[h] # heartbeatDue[h]

C16_EmitsHeartbeat(h) ==
    /\ Len(emitted'[h]) = Len(emitted[h]) + 1
    /\ emitted'[h][Len(emitted'[h])].type = "heartbeat"

C16_HeartbeatOrReconnect ==
    [][\A h \in Handlers :
          /\ C16_Fires(h) =>
                /\ now = heartbeatDue[h] /\ heartbeatDue'[h] = heartbeatDue[h] + 30
                /\ IF connected[h]
                   THEN /\ emitted'[h] = Append(emitted[h],
                                                [type |-> "heartbeat", timestamp |-> now])
                        /\ connectCalls'[h] = connectCalls[h]
                   ELSE /\ connectCalls'[h] = connectCalls[h] + 1
                        /\ emitted'[h] = emitted[h]
          /\ C16_EmitsHeartbeat(h) => connected[h] /\ C16_Fires(h)
          /\ connectCalls'[h] # connectCalls[h] => ~connected[h] /\ C16_Fires(h)]_vars

\* one socket has seen both: a first interval that found it disconnected and asked
\* for a connection, and a second, 30 seconds later, that sent the heartbeat
C16_Witness ==
    \E h \in Handlers :
        /\ connectCalls[h] = 1
        /\ Len(emitted[h]) = 1
        /\ emitted[h][1] = [type |-> "heartbeat", timestamp |-> LoadTime + 60]
        /\ heartbeatDue[h] = LoadTime + 90

(***************************************************************************)
(* C17.  After any sequence of connect, disconnect, connect_error and      *)
(* reconnect events on the two sockets, the text and the class of the      *)
(* status display are those of the event delivered last: class connected   *)
(* exactly after connect or reconnect, class disconnected exactly after    *)
(* disconnect or connect_error; and the status displayed is always one of  *)
(* connecting, connected, disconnected and error.                          *)
(***************************************************************************)
C17_Displayed(text) ==
    CASE text = "Connecting..." -> "connecting"
      [] text \in {"Connected to XRP Ledger", "Reconnected"} -> "connected"
      [] text = "Disconnected from XRP Ledger" -> "disconnected"
      [] text = "Connection Error" -> "error"
      [] OTHER -> "other"

C17_TextOf(name) ==
    CASE name = "connect" -> "Connected to XRP Ledger"
      [] name = "disconnect" -> "Disconnected from XRP Ledger"
      [] name = "connect_error" -> "Connection Error"
      [] name = "reconnect" -> "Reconnected"
      [] OTHER -> "Connecting..."

C17_StatusOfLastEvent ==
    /\ connectionStatus.textContent = C17_TextOf(lastStatusEvent.name)
    /\ connectionStatus.className = "connected" <=>
           lastStatusEvent.name \in {"connect", "reconnect"}
    /\ connectionStatus.className = "disconnected" <=>
           lastStatusEvent.name \in {"disconnect", "connect_error"}
    /\ C17_Displayed(connectionStatus.textContent) \in
           {"connecting", "connected", "disconnected", "error"}
    /\ lastStatusEvent.name # "none" =>
           C17_Displayed(connectionStatus.textContent) =
               (CASE lastStatusEvent.name \in {"connect", "reconnect"} -> "connected"
                  [] lastStatusEvent.name = "disconnect" -> "disconnected"
                  [] OTHER -> "error")

\* a socket has reconnected after the other was disconnected: the display reads
\* Reconnected with class connected (in the colour the disconnect handler set),
\* while the other socket is still not connected
C17_Witness ==
    /\ lastStatusEvent = [name |-> "reconnect", h |-> 2]
    /\ connectionStatus = [textContent |-> "Reconnected", className |-> "connected",
                           color |-> "#F44336"]
    /\ connected[2] /\ ~connected[1]
    /\ now > LoadTime

(***************************************************************************)
(* C18.  Whenever a listener handles a payload that carries a payment      *)
(* signal, its tracker is updated: anyPaymentCount grows by 1 and a record *)
(* is put in front of recentPayments, whether or not the listener made a   *)
(* walker less than 2 seconds before; and the update leaves lastWalkerTime *)
(* to createWalker.                                                        *)
(***************************************************************************)
C18_TrackerRegardlessOfThrottle ==
    [][\A h \in Handlers :
          (Handles(h) /\ ~Payload(h).isNull /\ C12_Counted(h, Payload(h))) =>
              /\ anyPaymentCount'[h] = anyPaymentCount[h] + 1
              /\ Len(recentPayments'[h]) = Min(Len(recentPayments[h]) + 1, 10)
              /\ recentPayments'[h][1].time = now
              /\ C4_TooSoon(h) => lastWalkerTime'[h] = lastWalkerTime[h]]_vars

(***************************************************************************)
(* C19.  In every reachable state, for each listener: exactPaymentCount is *)
(* at most anyPaymentCount, recentPayments holds min(anyPaymentCount, 10)  *)
(* records, and at most exactPaymentCount of them have isExact = TRUE; and *)
(* no step makes either counter smaller.                                   *)
(***************************************************************************)
C19_ExactRecords(h) ==
    Cardinality({i \in 1 .. Len(recentPayments[h]) : recentPayments[h][i].isExact})

C19_Counters(h) ==
    /\ 0 <= exactPaymentCount[h]
    /\ exactPaymentCount[h] <= anyPaymentCount[h]
    /\ Len(recentPayments[h]) = Min(anyPaymentCount[h], 10)
    /\ C19_ExactRecords(h) <= exactPaymentCount[h]

C19_TrackerInvariants ==
    [][\A h \in Handlers :
          /\ C19_Counters(h) /\ C19_Counters(h)'
          /\ exactPaymentCount'[h] >= exactPaymentCount[h]
          /\ anyPaymentCount'[h] >= anyPaymentCount[h]]_vars

\* more payments than the list holds: exact ones among the ten kept and another,
\* the first, dropped from the list while its count stays
C19_Witness ==
    /\ anyPaymentCount[1] = 11
    /\ exactPaymentCount[1] = 3
    /\ Len(recentPayments[1]) = 10
    /\ C19_ExactRecords(1) = 2
    /\ recentPayments[1][1].isExact

C21_Bubbles == {el \in container : el.kind = "bubble"}

C21_WalkerOf(b, elements) ==
    {w \in elements : w.kind = "walker" /\ w.h = b.h /\ w.born = b.born /\ w.block = b.block}

C21_BubbleWithinWalker ==
    [][/\ \A b \in C21_Bubbles' :
             /\ C21_WalkerOf(b, container') # {}
             /\ now' - b.born <= 12
       /\ \A b \in C21_Bubbles' \ C21_Bubbles :
             C21_WalkerOf(b, container' \ container) # {}
       /\ \A b \in C21_Bubbles \ C21_Bubbles' :
             now = b.born + 12 /\ C21_WalkerOf(b, container) # {}]_vars

\* a bubble has just been removed, 12 seconds old, and its walker is still in the
\* container, its own removal due now
C21_Witness ==
    \E w \in Walkers(1) :
        /\ w.block > 0 /\ now = w.born + 12
        /\ w.size200 = 200 * 400
        /\ C21_Bubbles = {}
        /\ HasRemovalTimer(w)
        /\ ~\E i \in 1 .. Len(timers) : timers[i].kind = "bubble"

(***************************************************************************)
(* C22.  The animation container never holds more than 7 walker elements   *)
(* of the first listener at once.                                          *)
(***************************************************************************)
C22_AtMostSevenWalkers == Cardinality(Walkers(1)) <= 7

(***************************************************************************)
(* C23.  The first listener emits a diagnostic frontend_event exactly when *)
(* it creates a walker for a payload with the cat-amount flag, the         *)
(* exact-amount flag or the any-payment signal set; the event's type is    *)
(* cat_amount, exact_amount or any_amount in that order of priority and    *)
(* goes with the walker's sprite; a throttled payload emits none, and the  *)
(* number of events emitted never exceeds anyPaymentCount.                 *)
(***************************************************************************)
C23_SpriteOf(type) ==
    CASE type = "cat_amount" -> "spinning_cat.gif"
      [] type = "exact_amount" -> "default_walker3.gif"
      [] OTHER -> "happy.gif"

C23_DiagnosticPerWalker ==
    [][Handles(1) =>
          LET d == Payload(1)
              created == Added("walker", 1) # {}
          IN  /\ IF created /\ C11_Signal(d)
                 THEN /\ emitted'[1] = Append(emitted[1],
                                              [type |-> C11_Type(d), timestamp |-> now])
                      /\ \A w \in Added("walker", 1) : w.sprite = C23_SpriteOf(C11_Type(d))
                 ELSE emitted'[1] = emitted[1]
              /\ Len(emitted'[1]) <= anyPaymentCount'[1]]_vars

(***************************************************************************)
(* C24.  Once both listeners have handled every event delivered so far, in *)
(* whatever order they ran, the payment counters and the payment history   *)
(* on display are those of the first (richer) listener's tracker: the      *)
(* second, superseded listener leaves no other value on display.           *)
(***************************************************************************)
C24_Quiescent == \A h \in Handlers : inflight[h] = <<>>

C24_DisplayIsRicherTracker ==
    (C24_Quiescent /\ anyPaymentCount[1] > 0) =>
        /\ paymentDom.exact = exactPaymentCount[1]
        /\ paymentDom.any = anyPaymentCount[1]
        /\ paymentDom.list = recentPayments[1]

(***************************************************************************)
(* C25.  After any number of clicks on the collapse button aria-expanded   *)
(* is the negation of "the panel has the class collapsed"; each click      *)
(* flips the class, so that two clicks in a row restore both values, and a *)
(* click changes nothing else; nothing but a click changes the two.        *)
(***************************************************************************)
C25_Collapsed(classList) == "collapsed" \in classList

C25_Negation(classList) == IF C25_Collapsed(classList) THEN "false" ELSE "true"

C25_ClickTogglesBoth ==
    [][/\ clicks' > 0 => collapseBtn'.ariaExpanded = C25_Negation(infoPanel')
       /\ clicks' # clicks =>
             /\ C25_Collapsed(infoPanel') = ~C25_Collapsed(infoPanel)
             /\ infoPanel' \ {"collapsed"} = infoPanel \ {"collapsed"}
             /\ UNCHANGED <<now, blocks, inflight, latestBlockInfo, trackerVars,
                            walkerVars, connVars>>
       /\ clicks' = clicks => UNCHANGED <<infoPanel, collapseBtn>>]_vars

C25_Witness ==
    /\ clicks = 2
    /\ C25_Collapsed(infoPanel)
    /\ collapseBtn.ariaExpanded = "false"
    /\ container # {}

(***************************************************************************)
(* C26.  The NFT-mint signal of a payload is true exactly when             *)
(* tx_details.transaction_types exists and one of its keys contains "NFT", *)
(* "Token" or "Mint" (with these capitals, anywhere in the key); it is     *)
(* false when tx_details or transaction_types is absent.  A walker made    *)
(* for a payload without payment signal has the NFT sprite exactly then.   *)
(***************************************************************************)
C26_Contains(key, word) ==
    \E i \in 0 .. Len(key) - Len(word) : \A k \in 1 .. Len(word) : key[i + k] = word[k]

C26_Expected(d) ==
    /\ d.tx_details.present
    /\ d.tx_details.transaction_types.present
    /\ \E key \in d.tx_details.transaction_types.keys :
          \/ C26_Contains(key, <<"N", "F", "T">>)
          \/ C26_Contains(key, <<"T", "o", "k", "e", "n">>)
          \/ C26_Contains(key, <<"M", "i", "n", "t">>)

C26_NFTSignal ==
    [][Handles(1) =>
          LET d == Payload(1)
          IN  /\ checkForNFTMintTransactions(d) = C26_Expected(d)
              /\ \A w \in Added("walker", 1) :
                    w.sprite = "default_walker1.gif" <=> (C26_Expected(d) /\ ~C11_Signal(d))]_vars

C26_Witness ==
    /\ \E w \in Walkers(1) : w.block > 0 /\ w.sprite = "default_walker1.gif"
    /\ inflight[2] # <<>>
    /\ Head(inflight[2]).tx_details.transaction_types.keys = {KeyMPTokenAuthorize, KeyLowercase}

(***************************************************************************)
(* C27.  The any-payment signal of a payload is the value of               *)
(* special_wallet_received_xrp when that field is a boolean, whatever      *)
(* detailed_transactions holds; otherwise it is true exactly when          *)
(* detailed_transactions has an entry of type Payment, currency XRP and    *)
(* the designated wallet as receiver, and false when tx_details or         *)
(* detailed_transactions is absent.  The tracker and the sprite of the     *)
(* first listener follow this signal.                                      *)
(***************************************************************************)
C27_Expected(d) ==
    LET flag == d.tx_details.special_wallet_received_xrp
        list == d.tx_details.detailed_transactions
    IN  IF d.tx_details.present /\ flag \in {"true", "false"}
        THEN flag = "true"
        ELSE /\ d.tx_details.present
             /\ list.present
             /\ \E i \in DOMAIN list.items :
                   list.items[i] = [type |-> "Payment", currency |-> "XRP",
                                    receiver |-> "ra22VZUKQbznAAQooPYffPPXs4MUFwqVeH"]

C27_NoAmountFlag(d) ==
    /\ d.tx_details.special_wallet_received_exact_amount # "true"
    /\ d.tx_details.special_wallet_received_cat_amount # "true"

C27_AnyPaymentSignal ==
    [][Handles(1) =>
          LET d == Payload(1)
          IN  /\ checkSpecificWalletReceivedXRP(d) = C27_Expected(d)
              /\ (Shown(d) /\ C27_NoAmountFlag(d)) =>
                    /\ anyPaymentCount'[1] =
                          anyPaymentCount[1] + (IF C27_Expected(d) THEN 1 ELSE 0)
                    /\ \A w \in Added("walker", 1) :
                          w.sprite = "happy.gif" <=> C27_Expected(d)]_vars

C27_Witness ==
    /\ anyPaymentCount[1] = 1
    /\ \E w \in Walkers(1) : w.block > 0 /\ w.sprite = "happy.gif"
    /\ inflight[2] # <<>>
    /\ Head(inflight[2]).tx_details.special_wallet_received_xrp = "undefined"

(***************************************************************************)
(* C28.  One second after the page has loaded each listener calls          *)
(* createWalker with its defaults.  If the listener has created no walker  *)
(* in the 2 seconds before, the call adds one walker of the default sprite *)
(* and of size 250, no bubble, emits nothing, leaves the tracker alone and *)
(* sets lastWalkerTime; otherwise it does nothing.  A block the listener   *)
(* handles less than 2 seconds after its test walker gets no walker.       *)
(***************************************************************************)
C28_RecentWalker(h) == now - lastWalkerTime[h] < 2

C28_TestWalkers(h) == {w \in Walkers(h) : w.block = 0}

C28_TestWalker ==
    [][\A h \in Handlers :
          /\ TestCall(h) =>
                /\ now = LoadTime + 1
                /\ UNCHANGED <<trackerVars, emitted, latestBlockInfo>>
                /\ Added("bubble", h) = {}
                /\ IF C28_RecentWalker(h)
                   THEN /\ Added("walker", h) = {}
                        /\ lastWalkerTime'[h] = lastWalkerTime[h]
                   ELSE /\ \E w \in Added("walker", h) :
                              /\ Added("walker", h) = {w}
                              /\ w.sprite = "default_walker.gif"
                              /\ w.size200 = 200 * 250
                              /\ w.width200 = 200 * 250
                              /\ w.born = now
                              /\ w.block = 0
                        /\ lastWalkerTime'[h] = now
          /\ (Handles(h) /\ \E w \in C28_TestWalkers(h) : now - w.born < 2) =>
                Added("walker", h) = {}]_vars

C28_Witness ==
    /\ \E w \in C28_TestWalkers(1) : w.size200 = 200 * 250 /\ now - w.born < 2
    /\ blocks > 0
    /\ inflight[1] = <<>>
    /\ latestBlockInfo.ledger_index = blocks
    /\ \A w \in Walkers(1) : w.block = 0

====
